---------------------------- MODULE Spec2Model ----------------------------
(***************************************************************************)
(* Account-security core of the backend: registration with unique e-mail   *)
(* and nickname, login and the lockout policy of the User model, recovery  *)
(* codes and backup codes.  Every request is a process that is suspended   *)
(* at each awaited store call; the steps of concurrent requests interleave *)
(* at those points.  The store executes each single call atomically.       *)
(*                                                                         *)
(* Time is counted in units of 15 minutes, the life time of a recovery     *)
(* code; the lock time of two hours is 8 units.                            *)
(***************************************************************************)
EXTENDS Integers, Sequences, FiniteSets, TLC

(* ------------------------------ bounds --------------------------------- *)
NProcs == 2
MaxTime == 9
MaxRecords == 2
MaxRecoveryTime == 1

Procs == 1..NProcs

(* ------------------------- program constants --------------------------- *)
MAX_LOGIN_ATTEMPTS == 5
LOCK_TIME == 8
RECOVERY_TTL == 1
PASSWORD_MIN_LENGTH == 8
BACKUP_CODE_COUNT == 5
JWT_EXPIRES_IN == 672

(* --------------------------- optional values --------------------------- *)
\* A Date field that may be absent (null / undefined) is a sequence of
\* length 0 or 1.
NoDate == << >>
DateOf(t) == << t >>
HasDate(d) == Len(d) = 1

(* ----------------------------- characters ------------------------------ *)
UpperChars == {"A", "B", "K"}
LowerChars == {"a", "b", "c", "i", "k", "n", "x"}
DigitChars == {"0", "1"}
SpecialChars == {"!", "@", ".", "_"}
SpaceChars == {" "}

\* String.prototype.toLowerCase, one character
ToLowerChar(c) ==
  CASE c = "A" -> "a"
    [] c = "B" -> "b"
    [] c = "K" -> "k"
    [] OTHER -> c

ToLowerCase(s) == [i \in 1..Len(s) |-> ToLowerChar(s[i])]

RECURSIVE TrimStart(_)
TrimStart(s) ==
  IF s = << >> THEN s
  ELSE IF Head(s) \in SpaceChars THEN TrimStart(Tail(s)) ELSE s

RECURSIVE TrimEnd(_)
TrimEnd(s) ==
  IF s = << >> THEN s
  ELSE IF s[Len(s)] \in SpaceChars THEN TrimEnd(SubSeq(s, 1, Len(s) - 1)) ELSE s

\* String.prototype.trim
Trim(s) == TrimEnd(TrimStart(s))

\* String.prototype.normalize('NFKC'), one code point: the Kelvin sign
\* (U+212A, written "KELVIN") is compatibility-equivalent to the letter K
NFKCChar(c) == IF c = "KELVIN" THEN "K" ELSE c

normalizeEmail(email) == Trim(ToLowerCase(email))

normalizeNickname(nickname) == Trim(nickname)

normalizePassword(password) == [i \in 1..Len(password) |-> NFKCChar(password[i])]

\* /^[^\s@]+@[^\s@]+\.[^\s@]+$/
isValidEmail(s) ==
  /\ \A i \in 1..Len(s) : s[i] \notin SpaceChars
  /\ Cardinality({i \in 1..Len(s) : s[i] = "@"}) = 1
  /\ \E i \in 2..Len(s) :
       /\ s[i] = "@"
       /\ \E j \in (i + 2)..(Len(s) - 1) : s[j] = "."

\* /^[a-zA-Z0-9_]{3,30}$/
isValidNickname(s) ==
  /\ Len(s) >= 3
  /\ Len(s) <= 30
  /\ \A i \in 1..Len(s) : s[i] \in UpperChars \cup LowerChars \cup DigitChars \cup {"_"}

\* SecurityUtils.validatePasswordStrength with the default configuration:
\* upper case, number and special character are all required
validatePasswordStrength(pw) ==
  /\ Len(pw) >= PASSWORD_MIN_LENGTH
  /\ \E i \in 1..Len(pw) : pw[i] \in UpperChars
  /\ \E i \in 1..Len(pw) : pw[i] \in LowerChars
  /\ \E i \in 1..Len(pw) : pw[i] \in DigitChars
  /\ \E i \in 1..Len(pw) : pw[i] \in SpecialChars

\* bcrypt.hash / bcrypt.compare: the hash determines the plaintext
BcryptHash(pw) == << "bcrypt", pw >>
BcryptCompare(candidate, hash) == hash = << "bcrypt", candidate >>

\* createHash('sha256').update(code).digest('hex')
Sha256(code) == << "sha256", code >>

(* ------------------------------- inputs -------------------------------- *)
EmailA == << "a", "@", "x", ".", "c" >>
EmailAUpper == << "A", "@", "x", ".", "c" >>
EmailB == << "b", "@", "x", ".", "c" >>
RawEmails == {EmailA, EmailAUpper, EmailB}

NickN == << "n", "i", "k" >>
NickC == << "n", "i", "c" >>
RawNicknames == {NickN, NickC}

PwStrong == << "K", "a", "a", "a", "a", "a", "1", "!" >>
PwOther == << "K", "b", "b", "b", "b", "b", "1", "!" >>
PwWeak == << "a", "a", "a", "a", "a", "a", "a", "a" >>


\* a password with a compatibility character (the Kelvin sign) and its NFKC
\* form
PwKelvin == << "A", "KELVIN", "b", "b", "b", "b", "1", "!" >>
PwKelvinNFKC == << "A", "K", "b", "b", "b", "b", "1", "!" >>

(* ------------------------------- state --------------------------------- *)
VARIABLES
  users,          \* collection 'users': sequence of documents, _id = position
  recoveryCodes,  \* collection of RecoveryCode documents, in insertion order
  now,            \* the clock (new Date() / Date.now())
  proc,           \* the requests in flight: position, inputs, locals
  resp,           \* the response the last step sent, NoResp when it sent none
  nextRid,        \* number of RecoveryCode documents created so far (_id source)
  consumed,       \* observation: per RecoveryCode _id, its key and the verifications it satisfied
  serial,         \* observation: account 1 had every login attempt run atomically
  streak,         \* observation: consecutive failed logins on account 1, up to the maximum
  accepts         \* observation: backup codes accepted since the last generateBackupCodes

vars == << users, recoveryCodes, now, proc, resp, nextRid, consumed, serial, streak, accepts >>

NoToken == << >>

\* a user document as stored; the schema defaults of user.model.ts
NewUser(email, passwordHash, nickname) ==
  [ email |-> email,
    password |-> passwordHash,
    nickname |-> nickname,
    failedLoginAttempts |-> 0,
    accountLocked |-> FALSE,
    lockUntil |-> NoDate,
    backupCodes |-> << >>,
    isVerified |-> FALSE ]

\* the value of a query that found nothing, and of locals not yet assigned
NoUser == NewUser(<< >>, << >>, << >>)

\* a store update prepared by the application and not yet executed
NoUpdate == [ type |-> "none", until |-> NoDate ]

\* a request: position, inputs, locals, and the fields of its response
IdleProc ==
  [ pc |-> "idle", op |-> "none",
    email |-> << >>, password |-> << >>, nickname |-> << >>, code |-> << >>,
    uid |-> 0, snap |-> NoUser, verr |-> FALSE, dbError |-> "none", upd |-> NoUpdate,
    gate |-> "none", afterMax |-> FALSE,
    status |-> 0, kind |-> "none", ok |-> FALSE, token |-> NoToken ]

NoResp == IdleProc

Free(p) == proc[p].pc = "idle"

\* the request r ends with this response; its locals are dropped
Response(r, status, kind, ok, token) ==
  [ r EXCEPT !.pc = "done", !.snap = NoUser, !.verr = FALSE, !.upd = NoUpdate,
             !.status = status, !.kind = kind, !.ok = ok, !.token = token ]

\* process p sends response r and is free again
Respond(p, r) ==
  /\ proc' = [ proc EXCEPT ![p] = IdleProc ]
  /\ resp' = r

\* process p goes on as r; the step sends no response
Continue(p, r) ==
  /\ proc' = [ proc EXCEPT ![p] = r ]
  /\ resp' = NoResp

(* ------------------------------- tokens -------------------------------- *)
\* AuthConfig.getJwtIssuer / getJwtAudience, and values that are not theirs
JwtIssuer == "astrolune-api"
JwtAudience == "astrolune-client"
OtherIssuer == "other-api"
OtherAudience == "other-client"

\* AuthService.generateToken: jwt.sign of the payload with the secret, the
\* issuer, the audience and expiresIn.  A token is what verification reads
\* off it: whether it parses, whether its signature is made with the secret,
\* its iss, aud and exp claims and its payload
generateToken(id, t) ==
  [ wellFormed |-> TRUE, signed |-> TRUE, iss |-> JwtIssuer, aud |-> JwtAudience,
    exp |-> DateOf(t + JWT_EXPIRES_IN), id |-> id, iat |-> t ]

\* jwt.verify without the expiry check (ignoreExpiration)
JwtVerify_IgnoreExpiration(tok, t) ==
  IF ~tok.wellFormed THEN "JsonWebTokenError"
  ELSE IF ~tok.signed THEN "JsonWebTokenError"
  ELSE IF tok.aud /= JwtAudience THEN "JsonWebTokenError"
  ELSE IF tok.iss /= JwtIssuer THEN "JsonWebTokenError"
  ELSE "decoded"

\* jwt.verify(token, secret, { issuer, audience }) at time t, in the order of
\* its checks: the token parses, the signature, exp, audience, issuer
JwtVerify(tok, t) ==
  IF ~tok.wellFormed THEN "JsonWebTokenError"
  ELSE IF ~tok.signed THEN "JsonWebTokenError"
  ELSE IF HasDate(tok.exp) /\ t >= tok.exp[1] THEN "TokenExpiredError"
  ELSE IF tok.aud /= JwtAudience THEN "JsonWebTokenError"
  ELSE IF tok.iss /= JwtIssuer THEN "JsonWebTokenError"
  ELSE "decoded"

\* AuthService.verifyToken: the error code it throws, "OK" when it returns the
\* decoded payload
verifyToken(tok, t) ==
  CASE JwtVerify(tok, t) = "decoded" -> "OK"
    [] JwtVerify(tok, t) = "TokenExpiredError" -> "TOKEN_EXPIRED"
    [] JwtVerify(tok, t) = "JsonWebTokenError" -> "INVALID_TOKEN"
    [] OTHER -> "TOKEN_VERIFICATION_FAILED"

\* the tokens presented to verifyToken: of either shape, signature, issuer and
\* audience, without exp, with an early exp, with the exp generateToken gives
TokenInputs ==
  [ wellFormed : BOOLEAN, signed : BOOLEAN, iss : {JwtIssuer, OtherIssuer},
    aud : {JwtAudience, OtherAudience},
    exp : {NoDate, DateOf(LOCK_TIME), DateOf(JWT_EXPIRES_IN)}, id : {1}, iat : {0} ]

\* one call of verifyToken
VerifyToken(p, tok) ==
  /\ Free(p)
  /\ Respond(p, Response([ IdleProc EXCEPT !.op = "verifyToken", !.uid = tok.id ],
                         0, verifyToken(tok, now), verifyToken(tok, now) = "OK", << tok >>))
  /\ UNCHANGED << users, recoveryCodes, now, nextRid, consumed, serial, streak, accepts >>

\* the tokens a request may carry: those of TokenInputs, for the account
\* stored and for an account that is not
AuthTokens == { [ tok EXCEPT !.id = i ] : tok \in TokenInputs, i \in {1, 2} }

\* AuthService.extractTokenFromRequest: the cookie, NoToken when the request
\* carries none
Cookies == { NoToken } \cup { << tok >> : tok \in AuthTokens }

\* the body of the try block of AuthService.checkAuth: what it returns, or
\* that it throws (verifyToken's AppError, a failure of User.findById)
CheckAuthTry(cookie, us, t, storeFails) ==
  IF cookie = NoToken THEN [ thrown |-> FALSE, isAuthenticated |-> FALSE ]
  ELSE IF verifyToken(cookie[1], t) /= "OK" THEN [ thrown |-> TRUE, isAuthenticated |-> FALSE ]
  ELSE IF storeFails THEN [ thrown |-> TRUE, isAuthenticated |-> FALSE ]
  ELSE IF cookie[1].id \notin 1..Len(us) THEN [ thrown |-> FALSE, isAuthenticated |-> FALSE ]
  ELSE [ thrown |-> FALSE, isAuthenticated |-> TRUE ]

\* a catch block that passes the error on
CheckAuthCatch_Rethrow(r) == r

\* the catch block of checkAuth: every error becomes { isAuthenticated: false }
CheckAuthCatch(r) ==
  IF r.thrown THEN [ thrown |-> FALSE, isAuthenticated |-> FALSE ] ELSE r

\* AuthService.checkAuth on a request with this cookie; the store may fail
\* during the lookup
CheckAuth(p, cookie, storeFails) ==
  /\ Free(p)
  /\ LET r == CheckAuthCatch(CheckAuthTry(cookie, users, now, storeFails))
         req == [ IdleProc EXCEPT !.op = "checkAuth",
                                  !.dbError = IF storeFails THEN "unavailable" ELSE "none" ]
     IN Respond(p, Response(req, 0, IF r.thrown THEN "THROWN" ELSE "RETURNED",
                            r.isAuthenticated, cookie))
  /\ UNCHANGED << users, recoveryCodes, now, nextRid, consumed, serial, streak, accepts >>

(* ------------------------------ the store ------------------------------ *)
\* User.findOne({ email }): _id of the document, 0 when there is none
FindOneByEmail(us, email) ==
  IF \E i \in 1..Len(us) : us[i].email = email
  THEN CHOOSE i \in 1..Len(us) : us[i].email = email /\ \A j \in 1..(i - 1) : us[j].email /= email
  ELSE 0

\* User.findOne({ nickname })
FindOneByNickname(us, nickname) ==
  IF \E i \in 1..Len(us) : us[i].nickname = nickname
  THEN CHOOSE i \in 1..Len(us) : us[i].nickname = nickname /\ \A j \in 1..(i - 1) : us[j].nickname /= nickname
  ELSE 0

\* userSchema.statics.isEmailTaken
isEmailTaken(us, email) == FindOneByEmail(us, normalizeEmail(email)) /= 0

\* the store without the unique index on email
DuplicateKey_NoEmailIndex(us, doc) ==
  IF FindOneByNickname(us, doc.nickname) /= 0 THEN "nickname" ELSE "none"

\* the unique indexes of the schema, evaluated by the store at write time:
\* the key pattern of the duplicate-key error, "none" when the write is accepted
DuplicateKey(us, doc) ==
  IF FindOneByEmail(us, doc.email) /= 0 THEN "email"
  ELSE IF FindOneByNickname(us, doc.nickname) /= 0 THEN "nickname"
  ELSE "none"

\* schema validators run by User.create before the write
SchemaValid(email, password, nickname) ==
  /\ isValidEmail(email)
  /\ Len(password) >= 8
  /\ validatePasswordStrength(password)
  /\ isValidNickname(nickname)

(* ---------------------------- registration ----------------------------- *)
\* observation: whether the email or the nickname of a registration belongs to
\* a stored account when the request arrives
TakenAtArrival(email, nickname) ==
  IF FindOneByEmail(users, normalizeEmail(email)) /= 0 THEN "email_taken"
  ELSE IF FindOneByNickname(users, normalizeNickname(nickname)) /= 0 THEN "nickname_taken"
  ELSE "free"

\* POST /auth/register arrives.  AuthValidators.register, chain of
\* body('email'): isEmail, normalizeEmail (lower-cases the address in the
\* request body), custom isEmailTaken
RegisterStart(p, email, password, nickname) ==
  /\ Free(p)
  /\ Continue(p, [ IdleProc EXCEPT !.pc = "reg_vrest", !.op = "register",
                     !.email = ToLowerCase(email), !.password = password,
                     !.nickname = nickname,
                     !.verr = ~isValidEmail(email) \/ isEmailTaken(users, ToLowerCase(email)),
                     !.gate = TakenAtArrival(email, nickname) ])
  /\ UNCHANGED << users, recoveryCodes, now, nextRid, consumed, serial, streak, accepts >>

\* AuthValidators.register, chains of body('password') and body('nickname')
RegisterValidateRest(p) ==
  /\ proc[p].pc = "reg_vrest"
  /\ LET pw == proc[p].password
         nn == proc[p].nickname
         bad == \/ Len(pw) < 8
                \/ Len(pw) > 128
                \/ ~validatePasswordStrength(pw)
                \/ Len(nn) < 3
                \/ Len(nn) > 30
                \/ ~isValidNickname(nn)
                \/ FindOneByNickname(users, Trim(nn)) /= 0
     IN Continue(p, [ proc[p] EXCEPT !.pc = "reg_chk_email",
                                      !.verr = proc[p].verr \/ bad ])
  /\ UNCHANGED << users, recoveryCodes, now, nextRid, consumed, serial, streak, accepts >>

\* AuthController.register: validateRequest, then createUser up to
\* checkEmailExists
RegisterCheckEmail(p) ==
  /\ proc[p].pc = "reg_chk_email"
  /\ IF proc[p].verr
     THEN Respond(p, Response(proc[p], 400, "VALIDATION_ERROR", FALSE, NoToken))
     ELSE LET e == normalizeEmail(proc[p].email)
              n == normalizeNickname(proc[p].nickname)
          IN IF FindOneByEmail(users, e) /= 0
             THEN Respond(p, Response(proc[p], 409, "EMAIL_EXISTS", FALSE, NoToken))
             ELSE Continue(p, [ proc[p] EXCEPT !.pc = "reg_chk_nick",
                                                !.email = e, !.nickname = n ])
  /\ UNCHANGED << users, recoveryCodes, now, nextRid, consumed, serial, streak, accepts >>

\* createUser: checkNicknameExists, validatePasswordStrength
RegisterCheckNickname(p) ==
  /\ proc[p].pc = "reg_chk_nick"
  /\ IF FindOneByNickname(users, proc[p].nickname) /= 0
     THEN Respond(p, Response(proc[p], 409, "NICKNAME_EXISTS", FALSE, NoToken))
     ELSE IF ~validatePasswordStrength(proc[p].password)
     THEN Respond(p, Response(proc[p], 400, "WEAK_PASSWORD", FALSE, NoToken))
     ELSE Continue(p, [ proc[p] EXCEPT !.pc = "reg_create" ])
  /\ UNCHANGED << users, recoveryCodes, now, nextRid, consumed, serial, streak, accepts >>

\* the error kind createUser throws for an error that User.create raised:
\* the duplicate-key handler of the model rethrows a plain Error, which is
\* not an AppError, so createUser wraps it as USER_CREATION_FAILED
CreateUserErrorKind(dbError) == "USER_CREATION_FAILED"

\* AuthController.handleAuthError: the message of the response body; the
\* kinds that pass error.message on carry the message of the AppError thrown
handleAuthErrorMessage(kind) ==
  CASE kind = "EMAIL_EXISTS" -> "Email already registered"
    [] kind = "NICKNAME_EXISTS" -> "Nickname already taken"
    [] kind = "WEAK_PASSWORD" -> "Password must contain at least 8 characters with uppercase, lowercase, number and special character"
    [] kind = "INVALID_CREDENTIALS" -> "Invalid email or password"
    [] OTHER -> "error.message"

\* a handler that answers every error with an internal error
handleAuthError_AlwaysInternal(kind) == 500

\* AuthController.handleAuthError: HTTP status of an AppError code
handleAuthError(kind) ==
  CASE kind = "EMAIL_EXISTS" -> 409
    [] kind = "NICKNAME_EXISTS" -> 409
    [] kind = "WEAK_PASSWORD" -> 400
    [] kind = "INVALID_CREDENTIALS" -> 401
    [] kind = "INVALID_EMAIL" -> 400
    [] kind = "INVALID_PASSWORD" -> 400
    [] kind = "VALIDATION_ERROR" -> 400
    [] OTHER -> 500

\* createUser: User.create (schema validation, password hashing, the write
\* under the unique indexes), then the controller's token and response
RegisterCreate(p) ==
  /\ proc[p].pc = "reg_create"
  /\ LET pw == normalizePassword(proc[p].password)
         doc == NewUser(normalizeEmail(proc[p].email), BcryptHash(pw), Trim(proc[p].nickname))
         err == IF ~SchemaValid(doc.email, pw, doc.nickname) THEN "validation"
                ELSE DuplicateKey(users, doc)
     IN IF err = "none"
        THEN /\ users' = Append(users, doc)
             /\ Respond(p, Response([ proc[p] EXCEPT !.uid = Len(users) + 1 ], 201, "CREATED",
                                    TRUE, << generateToken(Len(users) + 1, now) >>))
        ELSE /\ users' = users
             /\ Respond(p, Response([ proc[p] EXCEPT !.dbError = err ],
                                    handleAuthError(CreateUserErrorKind(err)),
                                    CreateUserErrorKind(err), FALSE, NoToken))
  /\ UNCHANGED << recoveryCodes, now, nextRid, consumed, serial, streak, accepts >>

(* ------------------------- the lockout policy -------------------------- *)
\* a gate that takes every stored lock for a lock in force
isAccountLocked_AnyDate(u, t) == HasDate(u.lockUntil)

\* userSchema.methods.isAccountLocked (and the virtual isLocked) at time t
isAccountLocked(u, t) == HasDate(u.lockUntil) /\ u.lockUntil[1] > t

\* the lock is set and its time has passed
LockLapsed(u, t) == HasDate(u.lockUntil) /\ u.lockUntil[1] < t

\* an increment that does not look at whether the lock has lapsed
incrementLoginAttempts_NoLapse(u, t) ==
  IF u.failedLoginAttempts + 1 >= MAX_LOGIN_ATTEMPTS /\ ~isAccountLocked(u, t)
  THEN [ type |-> "inc_lock", until |-> DateOf(t + LOCK_TIME) ]
  ELSE [ type |-> "inc", until |-> NoDate ]

\* userSchema.methods.incrementLoginAttempts: the update it prepares from the
\* loaded document u at time t
incrementLoginAttempts(u, t) ==
  IF LockLapsed(u, t) THEN [ type |-> "lapsed", until |-> NoDate ]
  ELSE IF u.failedLoginAttempts + 1 >= MAX_LOGIN_ATTEMPTS /\ ~isAccountLocked(u, t)
       THEN [ type |-> "inc_lock", until |-> DateOf(t + LOCK_TIME) ]
       ELSE [ type |-> "inc", until |-> NoDate ]

\* userSchema.methods.resetLoginAttempts: the update it prepares
resetLoginAttempts == [ type |-> "reset", until |-> NoDate ]

\* a store whose reset unsets the counter only and leaves the lock in place
UpdateOne_ResetKeepsLock(doc, upd) ==
  CASE upd.type = "lapsed" ->
         [ doc EXCEPT !.lockUntil = NoDate, !.accountLocked = FALSE,
                      !.failedLoginAttempts = 1 ]
    [] upd.type = "inc" ->
         [ doc EXCEPT !.failedLoginAttempts = @ + 1 ]
    [] upd.type = "inc_lock" ->
         [ doc EXCEPT !.failedLoginAttempts = @ + 1, !.accountLocked = TRUE,
                      !.lockUntil = upd.until ]
    [] upd.type = "reset" ->
         [ doc EXCEPT !.failedLoginAttempts = 0 ]
    [] OTHER -> doc

\* the store executes updateOne on the stored document: $unset leaves the
\* field absent, which reads back as the schema default; $inc adds to the
\* stored value
UpdateOne(doc, upd) ==
  CASE upd.type = "lapsed" ->
         [ doc EXCEPT !.lockUntil = NoDate, !.accountLocked = FALSE,
                      !.failedLoginAttempts = 1 ]
    [] upd.type = "inc" ->
         [ doc EXCEPT !.failedLoginAttempts = @ + 1 ]
    [] upd.type = "inc_lock" ->
         [ doc EXCEPT !.failedLoginAttempts = @ + 1, !.accountLocked = TRUE,
                      !.lockUntil = upd.until ]
    [] upd.type = "reset" ->
         [ doc EXCEPT !.failedLoginAttempts = 0, !.accountLocked = FALSE,
                      !.lockUntil = NoDate ]
    [] OTHER -> doc

\* lockout state of the stored account when a login attempt begins
GateOf(u, t) ==
  IF isAccountLocked(u, t) THEN "locked"
  ELSE IF LockLapsed(u, t) THEN "lapsed"
  ELSE "open"

StreakAfterFailure == IF streak < MAX_LOGIN_ATTEMPTS THEN streak + 1 ELSE streak

\* the attempt begins after the maximum of consecutive failures and before
\* the time of the lock, if a lock is stored
AfterMax(u, t) ==
  streak >= MAX_LOGIN_ATTEMPTS /\ (HasDate(u.lockUntil) => t < u.lockUntil[1])

(* ------------------------- AuthService.loginUser ------------------------ *)
\* AuthValidators.login and AuthController.validateLoginInput
LoginInputValid(email, password) ==
  /\ isValidEmail(email)
  /\ \E i \in 1..Len(email) : email[i] = "@"
  /\ Len(password) >= 8
  /\ Len(password) <= 128

\* POST /auth/login: validation, then loginUser: User.findOne, comparePasswords
\* on the normalized password, token and response.  The handler touches the
\* store once, in findOne, and writes nothing, so it is one step.
LoginUser(p, email, password) ==
  /\ Free(p)
  /\ LET e == normalizeEmail(ToLowerCase(email))
         id == FindOneByEmail(users, e)
         req == [ IdleProc EXCEPT !.op = "loginUser", !.email = email,
                                  !.password = password, !.uid = id ]
         att == [ req EXCEPT !.gate = GateOf(users[id], now),
                             !.afterMax = AfterMax(users[id], now) ]
     IN IF ~LoginInputValid(email, password)
        THEN Respond(p, Response([ req EXCEPT !.uid = 0 ], 400, "VALIDATION_ERROR",
                                    FALSE, NoToken))
        ELSE IF id = 0
        THEN Respond(p, Response(req, handleAuthError("INVALID_CREDENTIALS"),
                                    "INVALID_CREDENTIALS", FALSE, NoToken))
        ELSE IF BcryptCompare(normalizePassword(password), users[id].password)
        THEN Respond(p, Response(att, 200, "OK", TRUE, << generateToken(id, now) >>))
        ELSE Respond(p, Response(att, handleAuthError("INVALID_CREDENTIALS"),
                                    "INVALID_CREDENTIALS", FALSE, NoToken))
  /\ UNCHANGED << users, recoveryCodes, now, nextRid, consumed, accepts >>

(* ----------------------- User.findByCredentials ------------------------ *)
\* findByCredentials: the query, then the lock gate on the loaded document
FindByCredentialsStart(p, email, password) ==
  /\ Free(p)
  /\ LET id == FindOneByEmail(users, normalizeEmail(email))
         req == [ IdleProc EXCEPT !.op = "findByCredentials", !.email = email,
                                  !.password = password, !.uid = id ]
         att == [ req EXCEPT !.gate = GateOf(users[id], now),
                             !.afterMax = AfterMax(users[id], now) ]
     IN IF id = 0
        THEN Respond(p, Response(req, 0, "NULL", FALSE, NoToken))
        ELSE IF isAccountLocked(users[id], now)
        THEN Respond(p, Response(att, 0, "ACCOUNT_LOCKED", FALSE, NoToken))
        ELSE Continue(p, [ att EXCEPT !.pc = "fbc_compare", !.snap = users[id] ])
  /\ UNCHANGED << users, recoveryCodes, now, nextRid, consumed, accepts >>

\* findByCredentials: comparePassword on the loaded document, then
\* resetLoginAttempts or incrementLoginAttempts with its updateOne, which the
\* store executes on the stored document
FindByCredentialsFinish(p) ==
  /\ proc[p].pc = "fbc_compare"
  /\ IF BcryptCompare(proc[p].password, proc[p].snap.password)
     THEN /\ users' = [ users EXCEPT ![proc[p].uid] = UpdateOne(@, resetLoginAttempts) ]
          /\ Respond(p, Response(proc[p], 0, "USER", TRUE, NoToken))
     ELSE /\ users' = [ users EXCEPT ![proc[p].uid] =
                          UpdateOne(@, incrementLoginAttempts(proc[p].snap, now)) ]
          /\ Respond(p, Response(proc[p], 0, "NULL", FALSE, NoToken))
  /\ UNCHANGED << recoveryCodes, now, nextRid, consumed, accepts >>

(* ------------------------- unlocking by save --------------------------- *)
\* a save that leaves the counter and the time of the lock as they are
PreSaveUnlock_KeepsCounter(doc) == [ doc EXCEPT !.accountLocked = FALSE ]

\* userSchema.pre('save') with accountLocked modified to false: the paths the
\* save writes
PreSaveUnlock(doc) ==
  [ doc EXCEPT !.accountLocked = FALSE, !.failedLoginAttempts = 0, !.lockUntil = NoDate ]

\* an explicit unlock: the document is loaded
UnlockFind(p, userId) ==
  /\ Free(p)
  /\ userId \in 1..Len(users)
  /\ Continue(p, [ IdleProc EXCEPT !.op = "unlock", !.pc = "unlock_save", !.uid = userId,
                                   !.gate = GateOf(users[userId], now),
                                   !.snap = users[userId] ])
  /\ UNCHANGED << users, recoveryCodes, now, nextRid, consumed, serial, streak, accepts >>

\* an explicit unlock: accountLocked = false is assigned and the document is
\* saved.  The path is modified when the loaded value was true; the save
\* writes the modified paths and nothing when there is none
UnlockSave(p) ==
  /\ proc[p].pc = "unlock_save"
  /\ users' = IF proc[p].snap.accountLocked
              THEN [ users EXCEPT ![proc[p].uid] = PreSaveUnlock(@) ]
              ELSE users
  /\ Respond(p, Response(proc[p], 0, "SAVED", TRUE, NoToken))
  /\ UNCHANGED << recoveryCodes, now, nextRid, consumed, serial, streak, accepts >>

(* ------------------------------ the clock ------------------------------ *)
\* time passes by d units.  A unit is 15 minutes and no request lasts that
\* long, so the clock moves between requests.
Tick(d) ==
  /\ \A p \in Procs : Free(p)
  /\ now + d <= MaxTime
  /\ now' = now + d
  /\ resp' = NoResp
  /\ UNCHANGED << users, recoveryCodes, proc, nextRid, consumed, serial, streak, accepts >>

(* --------------------------- recovery codes ---------------------------- *)
\* randomBytes(3).toString('hex').toUpperCase(): the codes that may be drawn
RecoveryCodeValues == { << "A1B2C3" >>, << "D4E5F6" >> }

\* RecoveryCode.deleteMany({ userId })
DeleteMany(store, userId) == SelectSeq(store, LAMBDA r : r.userId /= userId)

\* the filter { userId, code, expiresAt: { $gt: new Date() } }
Matches(r, userId, hashedCode, t) ==
  r.userId = userId /\ r.code = hashedCode /\ r.expiresAt > t

\* position of the first document the filter matches, 0 when there is none
FindOne(store, userId, hashedCode, t) ==
  IF \E i \in 1..Len(store) : Matches(store[i], userId, hashedCode, t)
  THEN CHOOSE i \in 1..Len(store) :
         /\ Matches(store[i], userId, hashedCode, t)
         /\ \A j \in 1..(i - 1) : ~Matches(store[j], userId, hashedCode, t)
  ELSE 0

\* a store that finds the document and leaves it in place
DeleteAt_Keep(store, i) == store

\* the store without its document at position i
DeleteAt(store, i) == SubSeq(store, 1, i - 1) \o SubSeq(store, i + 1, Len(store))

\* RecoveryService.generateRecoveryCode up to deleteMany
GenerateRecoveryCodeDelete(p, userId) ==
  /\ Free(p)
  /\ recoveryCodes' = DeleteMany(recoveryCodes, userId)
  /\ Continue(p, [ IdleProc EXCEPT !.pc = "gen_create", !.op = "generateRecoveryCode",
                                   !.uid = userId ])
  /\ UNCHANGED << users, now, nextRid, consumed, serial, streak, accepts >>

\* generateRecoveryCode: the code is drawn, RecoveryCode.create stores its
\* hash with the expiry, the code is returned
GenerateRecoveryCodeCreate(p) ==
  /\ proc[p].pc = "gen_create"
  /\ nextRid < MaxRecords
  /\ \E code \in RecoveryCodeValues :
       LET doc == [ rid |-> nextRid + 1, userId |-> proc[p].uid,
                    code |-> Sha256(code), expiresAt |-> now + RECOVERY_TTL ]
       IN /\ recoveryCodes' = Append(recoveryCodes, doc)
          /\ consumed' = Append(consumed, [ userId |-> doc.userId, code |-> doc.code, n |-> 0 ])
          /\ Respond(p, Response([ proc[p] EXCEPT !.code = code ], 0, "CODE", TRUE, NoToken))
  /\ nextRid' = nextRid + 1
  /\ UNCHANGED << users, now, serial, streak, accepts >>

\* RecoveryService.verifyRecoveryCode: one findOneAndDelete
VerifyRecoveryCode(p, userId, code) ==
  /\ Free(p)
  /\ LET i == FindOne(recoveryCodes, userId, Sha256(code), now)
         req == [ IdleProc EXCEPT !.op = "verifyRecoveryCode", !.uid = userId, !.code = code ]
     IN IF i = 0
        THEN /\ Respond(p, Response(req, 0, "BOOL", FALSE, NoToken))
             /\ UNCHANGED << recoveryCodes, consumed >>
        ELSE /\ recoveryCodes' = DeleteAt(recoveryCodes, i)
             /\ consumed' = [ consumed EXCEPT ![recoveryCodes[i].rid].n = @ + 1 ]
             /\ Respond(p, Response(req, 0, "BOOL", TRUE, NoToken))
  /\ UNCHANGED << users, now, nextRid, serial, streak, accepts >>

(* ----------------------------- backup codes ---------------------------- *)
\* randomBytes(8) five times: the sets of codes that may be drawn
Batches == {"g1", "g2"}
BackupCodesOf(g) == [i \in 1..BACKUP_CODE_COUNT |-> << g, i >>]

Range(f) == {f[i] : i \in DOMAIN f}

\* Array.prototype.indexOf, positions counted from 1; 0 when absent
IndexOf(arr, x) ==
  IF \E i \in 1..Len(arr) : arr[i] = x
  THEN CHOOSE i \in 1..Len(arr) : arr[i] = x /\ \A j \in 1..(i - 1) : arr[j] /= x
  ELSE 0

\* RecoveryService.generateBackupCodes: one findByIdAndUpdate that sets the
\* whole array
GenerateBackupCodes(p, userId) ==
  /\ Free(p)
  /\ \E g \in Batches :
       LET codes == BackupCodesOf(g)
           hashes == [i \in 1..Len(codes) |-> Sha256(codes[i])]
       IN /\ users' = [i \in 1..Len(users) |->
                         IF i = userId THEN [ users[i] EXCEPT !.backupCodes = hashes ]
                         ELSE users[i]]
          /\ Respond(p, Response([ IdleProc EXCEPT !.op = "generateBackupCodes",
                                                   !.uid = userId, !.code = codes ],
                                 0, "CODES", TRUE, NoToken))
  /\ accepts' = {}
  /\ UNCHANGED << recoveryCodes, now, nextRid, consumed, serial, streak >>

\* Array.prototype.splice(index, 1) on the loaded array
Splice(arr, i) == SubSeq(arr, 1, i - 1) \o SubSeq(arr, i + 1, Len(arr))

\* RecoveryService.validateBackupCode: findById, indexOf on the loaded array,
\* splice
ValidateBackupCodeFind(p, userId, code) ==
  /\ Free(p)
  /\ LET req == [ IdleProc EXCEPT !.op = "validateBackupCode", !.uid = userId, !.code = code ]
     IN IF userId \notin 1..Len(users)
        THEN Respond(p, Response(req, 0, "BOOL", FALSE, NoToken))
        ELSE LET index == IndexOf(users[userId].backupCodes, Sha256(code))
             IN IF index = 0
                THEN Respond(p, Response(req, 0, "BOOL", FALSE, NoToken))
                ELSE Continue(p, [ req EXCEPT !.pc = "val_save",
                       !.snap = [ NoUser EXCEPT
                                    !.backupCodes = Splice(users[userId].backupCodes, index) ] ])
  /\ UNCHANGED << users, recoveryCodes, now, nextRid, consumed, serial, streak, accepts >>

\* validateBackupCode: user.save() writes the spliced array of the loaded
\* document; the schema has no version key, so the write is unconditional
ValidateBackupCodeSave(p) ==
  /\ proc[p].pc = "val_save"
  /\ users' = [ users EXCEPT ![proc[p].uid].backupCodes = proc[p].snap.backupCodes ]
  /\ accepts' = accepts \cup { proc[p].code }
  /\ Respond(p, Response(proc[p], 0, "BOOL", TRUE, NoToken))
  /\ UNCHANGED << recoveryCodes, now, nextRid, consumed, serial, streak >>

(* ------------------------- RecoveryController --------------------------- *)
\* ErrorHandler.handle for an error that is not an AppError and has none of
\* the names and codes it knows: handleUnknownError
handleUnknownError == 500

\* the email the handler queries with: recoveryValidator's normalizeEmail has
\* lower-cased the address in the body, the schema setters lower-case and trim
\* the filter
QueryEmail(email) == normalizeEmail(ToLowerCase(email))

\* POST /recovery/init-password-reset: User.findOne({ email }); the answer for
\* an email without account
InitPasswordResetFind(p, email) ==
  /\ Free(p)
  /\ LET id == FindOneByEmail(users, QueryEmail(email))
         req == [ IdleProc EXCEPT !.op = "initPasswordReset", !.email = email, !.uid = id ]
     IN IF id = 0
        THEN Respond(p, Response(req, 200, "If the email exists, a recovery code has been sent",
                                 TRUE, NoToken))
        ELSE Continue(p, [ req EXCEPT !.pc = "ipr_delete" ])
  /\ UNCHANGED << users, recoveryCodes, now, nextRid, consumed, serial, streak, accepts >>

\* initPasswordReset: generateRecoveryCode up to deleteMany
InitPasswordResetDelete(p) ==
  /\ proc[p].pc = "ipr_delete"
  /\ recoveryCodes' = DeleteMany(recoveryCodes, proc[p].uid)
  /\ Continue(p, [ proc[p] EXCEPT !.pc = "ipr_create" ])
  /\ UNCHANGED << users, now, nextRid, consumed, serial, streak, accepts >>

\* initPasswordReset: generateRecoveryCode draws the code and stores its hash
InitPasswordResetCreate(p) ==
  /\ proc[p].pc = "ipr_create"
  /\ nextRid < MaxRecords
  /\ \E code \in RecoveryCodeValues :
       LET doc == [ rid |-> nextRid + 1, userId |-> proc[p].uid,
                    code |-> Sha256(code), expiresAt |-> now + RECOVERY_TTL ]
       IN /\ recoveryCodes' = Append(recoveryCodes, doc)
          /\ consumed' = Append(consumed, [ userId |-> doc.userId, code |-> doc.code, n |-> 0 ])
          /\ Continue(p, [ proc[p] EXCEPT !.pc = "ipr_send", !.code = code ])
  /\ nextRid' = nextRid + 1
  /\ UNCHANGED << users, now, serial, streak, accepts >>

\* initPasswordReset: sendRecoveryEmail, which delivers or throws, and the
\* answer for an email with an account
InitPasswordResetSend(p, delivered) ==
  /\ proc[p].pc = "ipr_send"
  /\ IF delivered
     THEN Respond(p, Response(proc[p], 200, "Recovery code sent to email", TRUE, NoToken))
     ELSE Respond(p, Response([ proc[p] EXCEPT !.dbError = "delivery" ], handleUnknownError,
                              "Something went wrong", FALSE, NoToken))
  /\ UNCHANGED << users, recoveryCodes, now, nextRid, consumed, serial, streak, accepts >>

\* ErrorHandler.handle for a Mongoose ValidationError: handleValidationError
handleValidationError == 400

\* the validators of the password path that document.save() runs on the
\* value assigned: minlength, maxlength, strength
PasswordPathValid(password) ==
  /\ Len(password) >= 8
  /\ Len(password) <= 128
  /\ validatePasswordStrength(password)

\* userSchema.pre('save'): the modified password is replaced by its bcrypt
\* hash as assigned
PreSaveHash(password) == BcryptHash(password)

\* POST /recovery/verify-recovery-code: User.findOne({ email }); an email
\* without account throws Error('User not found')
ResetPasswordFind(p, email, code, newPassword) ==
  /\ Free(p)
  /\ LET id == FindOneByEmail(users, QueryEmail(email))
         req == [ IdleProc EXCEPT !.op = "resetPassword", !.email = email, !.code = code,
                                  !.password = newPassword, !.uid = id ]
     IN IF id = 0
        THEN Respond(p, Response(req, handleUnknownError, "Something went wrong", FALSE, NoToken))
        ELSE Continue(p, [ req EXCEPT !.pc = "rp_verify", !.snap = users[id] ])
  /\ UNCHANGED << users, recoveryCodes, now, nextRid, consumed, serial, streak, accepts >>

\* verifyRecoveryCode of the controller: RecoveryService.verifyRecoveryCode;
\* false throws Error('Invalid or expired code')
ResetPasswordVerify(p) ==
  /\ proc[p].pc = "rp_verify"
  /\ LET i == FindOne(recoveryCodes, proc[p].uid, Sha256(proc[p].code), now)
     IN IF i = 0
        THEN /\ Respond(p, Response([ proc[p] EXCEPT !.gate = "invalid" ], handleUnknownError,
                                    "Something went wrong", FALSE, NoToken))
             /\ UNCHANGED << recoveryCodes, consumed >>
        ELSE /\ recoveryCodes' = DeleteAt(recoveryCodes, i)
             /\ consumed' = [ consumed EXCEPT ![recoveryCodes[i].rid].n = @ + 1 ]
             /\ Continue(p, [ proc[p] EXCEPT !.pc = "rp_save", !.gate = "valid" ])
  /\ UNCHANGED << users, now, nextRid, serial, streak, accepts >>

\* verifyRecoveryCode of the controller: user.password = newPassword and
\* user.save(): validation of the password path, the pre-save hash, the write
ResetPasswordSave(p) ==
  /\ proc[p].pc = "rp_save"
  /\ IF PasswordPathValid(proc[p].password)
     THEN /\ users' = [ users EXCEPT ![proc[p].uid].password = PreSaveHash(proc[p].password) ]
          /\ Respond(p, Response(proc[p], 200, "Password reset successfully", TRUE, NoToken))
     ELSE /\ users' = users
          /\ Respond(p, Response([ proc[p] EXCEPT !.dbError = "validation" ], handleValidationError,
                                 "Validation failed", FALSE, NoToken))
  /\ UNCHANGED << recoveryCodes, now, nextRid, consumed, serial, streak, accepts >>

\* req.user as RecoveryController.useBackupCode reads it: the route runs
\* recoveryValidator.useBackupCode and the handler, and neither assigns
\* req.user, whatever session the request carries; 0 is undefined
UseBackupCodeReqUser(cookie) == 0

\* POST /recovery/use-backup-code: without req.user the handler throws
\* Error('User not authenticated'); with it, it calls
\* RecoveryService.verifyRecoveryCode, which looks the code up among the
\* RecoveryCode documents, and throws Error('Invalid backup code') on false
UseBackupCode(p, cookie, code) ==
  /\ Free(p)
  /\ LET user == UseBackupCodeReqUser(cookie)
         req == [ IdleProc EXCEPT !.op = "useBackupCode", !.code = code, !.uid = user ]
         i == FindOne(recoveryCodes, user, Sha256(code), now)
     IN IF user = 0
        THEN /\ Respond(p, Response(req, handleUnknownError, "Something went wrong", FALSE, cookie))
             /\ UNCHANGED << recoveryCodes, consumed >>
        ELSE IF i = 0
        THEN /\ Respond(p, Response(req, handleUnknownError, "Something went wrong", FALSE, cookie))
             /\ UNCHANGED << recoveryCodes, consumed >>
        ELSE /\ recoveryCodes' = DeleteAt(recoveryCodes, i)
             /\ consumed' = [ consumed EXCEPT ![recoveryCodes[i].rid].n = @ + 1 ]
             /\ Respond(p, Response(req, 200, "Backup code verified", TRUE, cookie))
  /\ UNCHANGED << users, now, nextRid, serial, streak, accepts >>

(* ----------------------- session-protected routes ---------------------- *)
\* AuthMiddleware.authenticate: the answer it sends, "next" when it sets
\* req.user and passes the request on
authenticate(cookie, us, t) ==
  IF cookie = NoToken THEN [ status |-> 401, message |-> "Authentication required" ]
  ELSE IF verifyToken(cookie[1], t) = "TOKEN_EXPIRED"
  THEN [ status |-> 401, message |-> "Token expired" ]
  ELSE IF verifyToken(cookie[1], t) = "INVALID_TOKEN"
  THEN [ status |-> 401, message |-> "Invalid token" ]
  ELSE IF verifyToken(cookie[1], t) /= "OK"
  THEN [ status |-> 401, message |-> "Authentication failed" ]
  ELSE IF cookie[1].id \notin 1..Len(us)
  THEN [ status |-> 401, message |-> "User not found" ]
  ELSE IF ~us[cookie[1].id].isVerified
  THEN [ status |-> 403, message |-> "Account not verified" ]
  ELSE [ status |-> 0, message |-> "next" ]

\* GET /auth/me: authenticate, then AuthController.getCurrentUser, which looks
\* the account of req.user up again.  No operation removes an account, so the
\* two lookups see the same account and the request is one step.
GetCurrentUser(p, cookie) ==
  /\ Free(p)
  /\ LET gate == authenticate(cookie, users, now)
         req == [ IdleProc EXCEPT !.op = "getCurrentUser",
                    !.uid = IF cookie /= NoToken /\ cookie[1].id \in 1..Len(users)
                            THEN cookie[1].id ELSE 0 ]
     IN IF gate.message /= "next"
        THEN Respond(p, Response(req, gate.status, gate.message, FALSE, cookie))
        ELSE IF req.uid \notin 1..Len(users)
        THEN Respond(p, Response(req, 404, "User not found", FALSE, cookie))
        ELSE Respond(p, Response(req, 200, "Current user retrieved successfully", TRUE, cookie))
  /\ UNCHANGED << users, recoveryCodes, now, nextRid, consumed, serial, streak, accepts >>

(* --------------------- AuthController.updateProfile -------------------- *)
\* a request body without nickname, and nicknames the handler is given besides
\* those of the registrations: a short one and one with a character the
\* schema does not allow
NoNickname == << >>
NickShort == << "n", "i" >>
NickBad == << "n", "!", "k" >>

\* User.findOne({ nickname, _id: { $ne: id } })
FindOtherByNickname(us, nickname, id) ==
  \E i \in 1..Len(us) : i /= id /\ us[i].nickname = nickname

\* User.findByIdAndUpdate(id, { nickname }, { runValidators: true }): the
\* error it raises, "none" when the store accepts the update.  The schema
\* validators of the path run first, then the write under the unique index
UpdateNickname(us, id, nickname) ==
  IF ~isValidNickname(nickname) THEN "validation"
  ELSE IF FindOtherByNickname(us, nickname, id) THEN "nickname"
  ELSE "none"

\* PATCH /auth/profile in AuthController.updateProfile, with req.user the
\* account reqUser that the middleware loaded (0: no req.user): the checks of
\* the body and the uniqueness query
UpdateProfileCheck(p, reqUser, nickname) ==
  /\ Free(p)
  /\ reqUser \in 0..Len(users)
  /\ LET req == [ IdleProc EXCEPT !.op = "updateProfile", !.uid = reqUser,
                                  !.nickname = nickname ]
     IN IF reqUser = 0
        THEN Respond(p, Response(req, 401, "Not authenticated", FALSE, NoToken))
        ELSE IF nickname /= NoNickname /\ Len(Trim(nickname)) < 3
        THEN Respond(p, Response(req, 400, "Nickname must be at least 3 characters long",
                                 FALSE, NoToken))
        ELSE IF /\ nickname /= NoNickname
                /\ Trim(nickname) /= users[reqUser].nickname
                /\ FindOtherByNickname(users, Trim(nickname), reqUser)
        THEN Respond(p, Response(req, 409, "Nickname already taken", FALSE, NoToken))
        ELSE Continue(p, [ req EXCEPT !.pc = "up_write" ])
  /\ UNCHANGED << users, recoveryCodes, now, nextRid, consumed, serial, streak, accepts >>

\* updateProfile: findByIdAndUpdate and the response; an error of the update
\* is caught and answered as an internal error
UpdateProfileWrite(p) ==
  /\ proc[p].pc = "up_write"
  /\ LET id == proc[p].uid
         nn == Trim(proc[p].nickname)
         err == IF proc[p].nickname = NoNickname THEN "none"
                ELSE UpdateNickname(users, id, nn)
     IN IF err /= "none"
        THEN /\ users' = users
             /\ Respond(p, Response([ proc[p] EXCEPT !.dbError = err ], 500,
                                    "Failed to update profile", FALSE, NoToken))
        ELSE /\ users' = IF proc[p].nickname = NoNickname THEN users
                         ELSE [ users EXCEPT ![id].nickname = nn ]
             /\ Respond(p, Response(proc[p], 200, "Profile updated successfully", TRUE, NoToken))
  /\ UNCHANGED << recoveryCodes, now, nextRid, consumed, serial, streak, accepts >>

(* ------------------------- PasswordController -------------------------- *)
\* userSchema.methods.comparePassword: bcrypt.compare of the candidate as given
comparePassword(candidate, hash) == BcryptCompare(candidate, hash)

\* PasswordController.changePassword for the authenticated account userId:
\* User.findById with the password, comparePassword on currentPassword
ChangePasswordFind(p, userId, currentPassword, newPassword) ==
  /\ Free(p)
  /\ LET req == [ IdleProc EXCEPT !.op = "changePassword", !.uid = userId,
                                  !.password = newPassword ]
     IN IF userId \notin 1..Len(users)
        THEN Respond(p, Response(req, handleUnknownError, "Something went wrong", FALSE, NoToken))
        ELSE IF ~comparePassword(currentPassword, users[userId].password)
        THEN Respond(p, Response(req, handleUnknownError, "Something went wrong", FALSE, NoToken))
        ELSE Continue(p, [ req EXCEPT !.pc = "cp_save" ])
  /\ UNCHANGED << users, recoveryCodes, now, nextRid, consumed, serial, streak, accepts >>

\* changePassword: user.password = newPassword and user.save()
ChangePasswordSave(p) ==
  /\ proc[p].pc = "cp_save"
  /\ IF PasswordPathValid(proc[p].password)
     THEN /\ users' = [ users EXCEPT ![proc[p].uid].password = PreSaveHash(proc[p].password) ]
          /\ Respond(p, Response(proc[p], 200, "Password changed successfully", TRUE, NoToken))
     ELSE /\ users' = users
          /\ Respond(p, Response([ proc[p] EXCEPT !.dbError = "validation" ], handleValidationError,
                                 "Validation failed", FALSE, NoToken))
  /\ UNCHANGED << recoveryCodes, now, nextRid, consumed, serial, streak, accepts >>

(* ---------------------------- initial states --------------------------- *)
\* the state after construction: empty collections, no request in flight
Init ==
  /\ users = << >>
  /\ recoveryCodes = << >>
  /\ now = 0
  /\ proc = [p \in Procs |-> IdleProc]
  /\ resp = NoResp
  /\ nextRid = 0
  /\ consumed = << >>
  /\ serial = NoUser
  /\ streak = 0
  /\ accepts = {}

\* the account of a completed registration of EmailA
RegisteredUser == NewUser(normalizeEmail(EmailA), BcryptHash(normalizePassword(PwStrong)), NickN)

\* one account has been registered; no request in flight
InitRegistered ==
  /\ users = << RegisteredUser >>
  /\ recoveryCodes = << >>
  /\ now = 0
  /\ proc = [p \in Procs |-> IdleProc]
  /\ resp = NoResp
  /\ nextRid = 0
  /\ consumed = << >>
  /\ serial = RegisteredUser
  /\ streak = 0
  /\ accepts = {}

\* the registered account has just been locked, by five failed attempts in a
\* row at the time of registration; no request in flight
InitLocked ==
  LET FailedOnce(u) == UpdateOne(u, incrementLoginAttempts(u, 0))
      LockedUser == FailedOnce(FailedOnce(FailedOnce(FailedOnce(FailedOnce(RegisteredUser)))))
  IN /\ users = << LockedUser >>
     /\ recoveryCodes = << >>
     /\ now = 0
     /\ proc = [p \in Procs |-> IdleProc]
     /\ resp = NoResp
     /\ nextRid = 0
     /\ consumed = << >>
     /\ serial = LockedUser
     /\ streak = MAX_LOGIN_ATTEMPTS
     /\ accepts = {}

(* --------------------------- specifications ---------------------------- *)
\* the registration requests drawn: one address in two spellings with either
\* nickname, a second address with a nickname of the first, a weak password
RegisterInputs ==
  ({EmailA, EmailAUpper} \X {PwStrong} \X RawNicknames)
    \cup { << EmailB, PwStrong, NickN >>, << EmailA, PwWeak, NickC >> }

RegisterNext ==
  \E p \in Procs :
    \/ \E r \in RegisterInputs : RegisterStart(p, r[1], r[2], r[3])
    \/ RegisterValidateRest(p)
    \/ RegisterCheckEmail(p)
    \/ RegisterCheckNickname(p)
    \/ RegisterCreate(p)

\* concurrent registrations on an empty store
SpecRegister == Init /\ [][RegisterNext]_vars

\* the streak of consecutive failed logins on account 1 after the step: a
\* login with a wrong password lengthens it, a successful login ends it
ObserveStreak ==
  streak' = IF resp'.op \in {"loginUser", "findByCredentials"} /\ resp'.uid = 1
            THEN IF resp'.ok THEN 0
                 ELSE IF resp'.kind \in {"INVALID_CREDENTIALS", "NULL"}
                      THEN StreakAfterFailure
                      ELSE streak
            ELSE streak

\* what one call of findByCredentials makes of account acc when nothing else
\* runs between its read and its write
AtomicFindByCredentials(acc, password, t) ==
  IF isAccountLocked(acc, t) THEN acc
  ELSE IF BcryptCompare(password, acc.password) THEN UpdateOne(acc, resetLoginAttempts)
  ELSE UpdateOne(acc, incrementLoginAttempts(acc, t))

\* the account had the attempts, in the order of their completion, each run
\* atomically at the time it completed
ObserveSerial ==
  serial' = IF resp'.op = "findByCredentials" /\ resp'.uid = 1
            THEN AtomicFindByCredentials(serial, resp'.password, now)
            ELSE serial

\* one client, one request at a time
Client == CHOOSE p \in Procs : \A q \in Procs : p <= q

LoginNext ==
  \/ \E e \in {EmailA, EmailB}, pw \in {PwStrong, PwOther} :
       LoginUser(Client, e, pw) /\ ObserveStreak /\ UNCHANGED serial
  \/ \E e \in {EmailA, EmailB}, pw \in {PwStrong, PwOther} :
       FindByCredentialsStart(Client, e, pw) /\ ObserveStreak /\ UNCHANGED serial
  \/ FindByCredentialsFinish(Client) /\ ObserveStreak /\ UNCHANGED serial
  \/ \E d \in {LOCK_TIME, LOCK_TIME + 1} : Tick(d)

\* a client that logs in, one attempt after the other, through the service
\* (loginUser) and through the model (findByCredentials)
SpecLogin == InitRegistered /\ [][LoginNext]_vars

FailedLoginsNext ==
  \/ \E p \in Procs :
       \/ FindByCredentialsStart(p, EmailA, PwOther) /\ ObserveSerial /\ UNCHANGED streak
       \/ FindByCredentialsFinish(p) /\ ObserveSerial /\ UNCHANGED streak
  \/ \E d \in {LOCK_TIME, LOCK_TIME + 1} : Tick(d)

\* concurrent login attempts with a wrong password on one account
SpecFailedLogins == InitRegistered /\ [][FailedLoginsNext]_vars


\* the accounts recovery codes are requested for
RecoveryUserIds == {1, 2}

RecoveryNext ==
  \/ \E p \in Procs :
       \/ \E u \in RecoveryUserIds : GenerateRecoveryCodeDelete(p, u)
       \/ GenerateRecoveryCodeCreate(p)
       \/ \E u \in RecoveryUserIds, c \in RecoveryCodeValues : VerifyRecoveryCode(p, u, c)
  \/ now < MaxRecoveryTime /\ Tick(RECOVERY_TTL)

\* concurrent generateRecoveryCode and verifyRecoveryCode calls
SpecRecovery == InitRegistered /\ [][RecoveryNext]_vars

\* the codes a client presents: the first two of each set
CandidateCodes == { << g, i >> : g \in Batches, i \in 1..2 }

BackupNext ==
  \E p \in Procs :
    \/ GenerateBackupCodes(p, 1)
    \/ \E c \in CandidateCodes : ValidateBackupCodeFind(p, 1, c)
    \/ ValidateBackupCodeSave(p)

\* concurrent generateBackupCodes and validateBackupCode calls on one account
SpecBackup == InitRegistered /\ [][BackupNext]_vars

TokenNext ==
  \/ \E p \in Procs, tok \in TokenInputs : VerifyToken(p, tok)
  \/ \E d \in {1, LOCK_TIME} : Tick(d)

\* verifyToken called on tokens of every kind as time passes
SpecToken == InitRegistered /\ [][TokenNext]_vars

CheckAuthNext ==
  \/ \E p \in Procs, cookie \in Cookies, storeFails \in BOOLEAN : CheckAuth(p, cookie, storeFails)
  \/ \E d \in {1, LOCK_TIME} : Tick(d)

\* checkAuth called on requests of every kind as time passes
SpecCheckAuth == InitRegistered /\ [][CheckAuthNext]_vars

\* the new passwords a reset asks for: a strong one and a weak one
NewPasswords == {PwOther, PwWeak}

ResetNext ==
  \/ \E p \in Procs :
       \/ \E e \in {EmailA, EmailB} : InitPasswordResetFind(p, e)
       \/ InitPasswordResetDelete(p)
       \/ InitPasswordResetCreate(p)
       \/ \E delivered \in BOOLEAN : InitPasswordResetSend(p, delivered)
       \/ \E e \in {EmailA, EmailB}, c \in RecoveryCodeValues, pw \in NewPasswords :
            ResetPasswordFind(p, e, c, pw)
       \/ ResetPasswordVerify(p)
       \/ ResetPasswordSave(p)
  \/ now < MaxRecoveryTime /\ Tick(RECOVERY_TTL)

\* concurrent init-password-reset and verify-recovery-code requests
SpecReset == InitRegistered /\ [][ResetNext]_vars

\* the sessions a use-backup-code request carries: none, or the token of a
\* login to the account at time 0
SessionCookies == { NoToken, << generateToken(1, 0) >> }

UseBackupNext ==
  \/ \E p \in Procs :
       \/ GenerateBackupCodes(p, 1)
       \/ \E cookie \in SessionCookies, c \in CandidateCodes \cup RecoveryCodeValues :
            UseBackupCode(p, cookie, c)
  \/ Tick(1)

\* backup codes are generated and presented to POST /recovery/use-backup-code
SpecUseBackup == InitRegistered /\ [][UseBackupNext]_vars

\* the last response is a successful registration or login: the client holds
\* the token it carries
SessionIssued == resp.pc = "done" /\ resp.op \in {"register", "loginUser"} /\ resp.ok

SessionNext ==
  \/ \E p \in Procs :
       \/ \E r \in RegisterInputs : RegisterStart(p, r[1], r[2], r[3])
       \/ RegisterValidateRest(p)
       \/ RegisterCheckEmail(p)
       \/ RegisterCheckNickname(p)
       \/ RegisterCreate(p)
       \/ \E e \in {EmailA, EmailB}, pw \in {PwStrong, PwOther} :
            LoginUser(p, e, pw) /\ UNCHANGED << serial, streak >>
       \/ SessionIssued /\ GetCurrentUser(p, resp.token)
       \/ GetCurrentUser(p, NoToken)
  \/ Tick(LOCK_TIME)

\* clients register, log in and call GET /auth/me with the token received
SpecSession == Init /\ [][SessionNext]_vars

\* the passwords of the credential paths: the registered one, one with a
\* compatibility character, and its NFKC form
CredentialPasswords == {PwStrong, PwKelvin, PwKelvinNFKC}

CredentialNext ==
  \/ RegisterStart(Client, EmailB, PwKelvin, NickC)
  \/ RegisterValidateRest(Client)
  \/ RegisterCheckEmail(Client)
  \/ RegisterCheckNickname(Client)
  \/ RegisterCreate(Client)
  \/ \E pw \in CredentialPasswords :
       ChangePasswordFind(Client, 1, pw, PwKelvin)
  \/ ChangePasswordSave(Client)
  \/ InitPasswordResetFind(Client, EmailA)
  \/ InitPasswordResetDelete(Client)
  \/ InitPasswordResetCreate(Client)
  \/ InitPasswordResetSend(Client, TRUE)
  \/ \E c \in RecoveryCodeValues : ResetPasswordFind(Client, EmailA, c, PwKelvin)
  \/ ResetPasswordVerify(Client)
  \/ ResetPasswordSave(Client)
  \/ \E e \in {EmailA, EmailB}, pw \in CredentialPasswords :
       LoginUser(Client, e, pw) /\ UNCHANGED << serial, streak >>

\* one client sets credentials by registration, password change and recovery
\* reset, and logs in
SpecCredential == InitRegistered /\ [][CredentialNext]_vars

LockoutNext ==
  \/ \E p \in Procs :
       \/ \E pw \in {PwStrong, PwOther} :
            FindByCredentialsStart(p, EmailA, pw) /\ ObserveSerial /\ UNCHANGED streak
       \/ FindByCredentialsFinish(p) /\ ObserveSerial /\ UNCHANGED streak
  \/ \E d \in {LOCK_TIME, LOCK_TIME + 1} : Tick(d)

\* concurrent login attempts on one account, with the right password and with
\* a wrong one, as time passes
SpecLockout == InitRegistered /\ [][LockoutNext]_vars

UnlockNext ==
  \/ \E p \in Procs :
       \/ \E pw \in {PwStrong, PwOther} :
            FindByCredentialsStart(p, EmailA, pw) /\ UNCHANGED << serial, streak >>
       \/ FindByCredentialsFinish(p) /\ UNCHANGED << serial, streak >>
       \/ UnlockFind(p, 1)
       \/ UnlockSave(p)
  \/ Tick(LOCK_TIME + 1)

\* concurrent login attempts and explicit unlocks on one account
SpecUnlock == InitRegistered /\ [][UnlockNext]_vars

\* the registrations of two accounts with different nicknames, and updates
\* of any account stored
ProfileNext ==
  \E p \in Procs :
    \/ \E r \in { << EmailA, NickC >>, << EmailB, NickN >> } :
         RegisterStart(p, r[1], PwStrong, r[2])
    \/ RegisterValidateRest(p)
    \/ RegisterCheckEmail(p)
    \/ RegisterCheckNickname(p)
    \/ RegisterCreate(p)
    \/ \E u \in 0..Len(users), n \in {NoNickname, NickShort, NickBad, NickN, NickC} :
         UpdateProfileCheck(p, u, n)
    \/ UpdateProfileWrite(p)

\* concurrent registrations and profile updates
SpecProfile == Init /\ [][ProfileNext]_vars

\* the calls of RecoveryNext; a generateRecoveryCode call begins while the
\* records of the calls in flight can still be created
RecoveryFairNext ==
  \/ \E p \in Procs :
       \/ /\ nextRid + Cardinality({ q \in Procs : proc[q].pc = "gen_create" }) < MaxRecords
          /\ \E u \in RecoveryUserIds : GenerateRecoveryCodeDelete(p, u)
       \/ GenerateRecoveryCodeCreate(p)
       \/ \E u \in RecoveryUserIds, c \in RecoveryCodeValues : VerifyRecoveryCode(p, u, c)
  \/ now < MaxRecoveryTime /\ Tick(RECOVERY_TTL)

\* a call that has begun completes and the clock goes on; nothing obliges a
\* client to make a call
SpecRecoveryFair ==
  /\ InitRegistered
  /\ [][RecoveryFairNext]_vars
  /\ \A p \in Procs : WF_vars(GenerateRecoveryCodeCreate(p))
  /\ WF_vars(now < MaxRecoveryTime /\ Tick(RECOVERY_TTL))

RecoverLockedNext ==
  \/ InitPasswordResetFind(Client, EmailA)
  \/ InitPasswordResetDelete(Client)
  \/ InitPasswordResetCreate(Client)
  \/ \E delivered \in BOOLEAN : InitPasswordResetSend(Client, delivered)
  \/ \E c \in RecoveryCodeValues, pw \in NewPasswords : ResetPasswordFind(Client, EmailA, c, pw)
  \/ ResetPasswordVerify(Client)
  \/ ResetPasswordSave(Client)
  \/ \E pw \in {PwStrong, PwOther} :
       LoginUser(Client, EmailA, pw) /\ UNCHANGED << serial, streak >>
  \/ \E pw \in {PwStrong, PwOther} :
       FindByCredentialsStart(Client, EmailA, pw) /\ UNCHANGED << serial, streak >>
  \/ FindByCredentialsFinish(Client) /\ UNCHANGED << serial, streak >>
  \/ Tick(RECOVERY_TTL)

\* the owner of a locked account resets the password through the recovery
\* flow and logs in
SpecRecoverLocked == InitLocked /\ [][RecoverLockedNext]_vars

(* ----------------------------- properties ------------------------------ *)
IsRegisterResp == resp.pc = "done" /\ resp.op = "register"

IsLoginResp ==
  resp.pc = "done" /\ resp.op \in {"loginUser", "findByCredentials"} /\ resp.uid /= 0

LockFields(u) ==
  [ failedLoginAttempts |-> u.failedLoginAttempts,
    accountLocked |-> u.accountLocked,
    lockUntil |-> u.lockUntil ]

Cleared == [ failedLoginAttempts |-> 0, accountLocked |-> FALSE, lockUntil |-> NoDate ]

\* C1: among registrations whose emails normalize to the same value exactly
\* one creates an account: no two stored accounts share a normalized email; a
\* call that returns success has just added the account of its normalized
\* email; a call turned away for the email, by the pre-check or by the store,
\* lost to an account that is stored.
C1_UniqueEmail ==
  /\ \A i, j \in 1..Len(users) :
       i /= j => normalizeEmail(users[i].email) /= normalizeEmail(users[j].email)
  /\ (IsRegisterResp /\ resp.status = 201)
       => /\ resp.uid = Len(users)
          /\ resp.uid >= 1
          /\ users[resp.uid].email = normalizeEmail(resp.email)
  /\ (IsRegisterResp /\ (resp.kind = "EMAIL_EXISTS" \/ resp.dbError = "email"))
       => FindOneByEmail(users, normalizeEmail(resp.email)) /= 0

\* a registration passed the pre-check while another one for the same
\* normalized email was in flight, and the store turned it away
C1_Witness ==
  /\ IsRegisterResp
  /\ resp.dbError = "email"
  /\ FindOneByEmail(users, normalizeEmail(resp.email)) /= 0

\* C2: a registration that passed the pre-check and lost at the unique
\* constraint of the store is answered 409 with kind EMAIL_EXISTS, not with a
\* generic server error.
C2_LoserSeesConflict ==
  (IsRegisterResp /\ resp.dbError = "email")
  => (resp.status = 409 /\ resp.kind = "EMAIL_EXISTS")

\* C3: a login attempt that begins after 5 consecutive failed attempts on the
\* account and before the time of the lock is answered AccountLocked and gets
\* no token, whatever the password.
C3_LockedAfterMax ==
  (IsLoginResp /\ resp.afterMax)
  => (resp.kind = "ACCOUNT_LOCKED" /\ ~resp.ok /\ resp.token = NoToken)

\* C4: a login attempt with the correct password on an account whose lock time
\* has passed succeeds, and leaves failedLoginAttempts 0, accountLocked false
\* and lockUntil absent.
C4_LapsedLockCleared ==
  (IsLoginResp /\ resp.gate = "lapsed"
     /\ BcryptCompare(normalizePassword(resp.password), users[resp.uid].password))
  => (resp.ok /\ LockFields(users[resp.uid]) = Cleared)

\* C5: a login attempt on an account that is locked when the attempt is made
\* is rejected as AccountLocked, without comparing the credential, and leaves
\* the lock fields of the account as they were.
C5_LockedGate ==
  [][ (resp'.pc = "done" /\ resp'.op \in {"loginUser", "findByCredentials"}
         /\ resp'.gate = "locked")
      => (resp'.kind = "ACCOUNT_LOCKED" /\ ~resp'.ok /\ users' = users) ]_vars

\* C6: when all concurrent failed attempts on the account have completed, its
\* counter and lock state are those the same attempts produce one after the
\* other.
C6_NoLostUpdate ==
  (\A p \in Procs : Free(p)) => LockFields(users[1]) = LockFields(serial)

\* C7: one generated recovery code makes verifyRecoveryCode return true at
\* most once, in any sequence or interleaving of calls.
C7_SingleUse == \A i \in 1..Len(consumed) : consumed[i].n <= 1

\* a code was generated and verified; a second call with the same code for the
\* same account has just returned false
C7_Witness ==
  /\ resp.pc = "done" /\ resp.op = "verifyRecoveryCode" /\ ~resp.ok
  /\ nextRid = 1
  /\ consumed[1] = [ userId |-> resp.uid, code |-> Sha256(resp.code), n |-> 1 ]

LiveRecords(userId) ==
  { i \in 1..Len(recoveryCodes) :
      recoveryCodes[i].userId = userId /\ recoveryCodes[i].expiresAt > now }

\* C8: in every reachable state an account has at most one RecoveryCode
\* document that has not expired.
C8_AtMostOneLive == \A u \in RecoveryUserIds : Cardinality(LiveRecords(u)) <= 1

\* C9: of the validateBackupCode calls that present one unused backup code,
\* concurrent ones included, one returns true and the others false: a call
\* never returns true for a code that a call has already been granted since
\* the codes were generated.
C9_FirstWriterWins ==
  [][ (resp'.pc = "done" /\ resp'.op = "validateBackupCode" /\ resp'.ok)
      => resp'.code \notin accepts ]_vars

\* the hashes of one generateBackupCodes call
BatchHashes(g) == { Sha256(c) : c \in Range(BackupCodesOf(g)) }

\* C10: between two generateBackupCodes calls the stored backup-code set only
\* shrinks: a validateBackupCode step that finds and leaves hashes of one and
\* the same generation puts no hash into the set that was not in it.
C10_OnlyShrinks ==
  [][ ( /\ resp'.op = "validateBackupCode"
        /\ \E g \in Batches :
             Range(users[1].backupCodes) \cup Range(users'[1].backupCodes)
               \subseteq BatchHashes(g) )
      => Range(users'[1].backupCodes) \subseteq Range(users[1].backupCodes) ]_vars

IsVerifyTokenResp == resp.pc = "done" /\ resp.op = "verifyToken"

\* the token of the response is past its expiry
RespTokenExpired == HasDate(resp.token[1].exp) /\ now >= resp.token[1].exp[1]

\* C11 as stated: verifyToken fails with TokenExpired exactly when the token is
\* correctly signed, matches issuer and audience and is past its expiry; every
\* other failure is InvalidToken; an expired token never verifies.
C11_ExpiredIffAllElseValid ==
  IsVerifyTokenResp =>
    LET tok == resp.token[1]
    IN /\ (resp.kind = "TOKEN_EXPIRED")
            <=> (/\ tok.wellFormed /\ tok.signed
                 /\ tok.iss = JwtIssuer /\ tok.aud = JwtAudience
                 /\ RespTokenExpired)
       /\ resp.kind \in {"OK", "TOKEN_EXPIRED", "INVALID_TOKEN"}
       /\ RespTokenExpired => ~resp.ok

\* C11 amended: verifyToken fails with TokenExpired exactly when the token
\* parses, is correctly signed and is past its expiry, whatever its issuer and
\* audience; every other failure is InvalidToken; an expired token never
\* verifies.
C11_ExpiredIffSignedAndPast ==
  IsVerifyTokenResp =>
    LET tok == resp.token[1]
    IN /\ (resp.kind = "TOKEN_EXPIRED")
            <=> (tok.wellFormed /\ tok.signed /\ RespTokenExpired)
       /\ resp.kind \in {"OK", "TOKEN_EXPIRED", "INVALID_TOKEN"}
       /\ RespTokenExpired => ~resp.ok
       /\ resp.ok <=> (/\ tok.wellFormed /\ tok.signed /\ ~RespTokenExpired
                       /\ tok.iss = JwtIssuer /\ tok.aud = JwtAudience)

\* a correctly signed token of another issuer, past its expiry, has just been
\* refused as expired
C11_Witness ==
  /\ IsVerifyTokenResp
  /\ resp.token[1].signed /\ resp.token[1].wellFormed
  /\ resp.token[1].iss = OtherIssuer
  /\ RespTokenExpired
  /\ resp.kind = "TOKEN_EXPIRED"

IsCheckAuthResp == resp.pc = "done" /\ resp.op = "checkAuth"

\* C12: checkAuth never throws outward; it returns isAuthenticated true only
\* when the request carries a token that verifies, the lookup succeeds and the
\* account exists, and { isAuthenticated: false } in every other case.
C12_NeverThrows ==
  IsCheckAuthResp =>
    /\ resp.kind = "RETURNED"
    /\ resp.ok <=> (/\ resp.token /= NoToken
                    /\ verifyToken(resp.token[1], now) = "OK"
                    /\ resp.dbError = "none"
                    /\ resp.token[1].id \in 1..Len(users))

\* a request with a token that verifies, for an account that exists, met a
\* store failure during the lookup and was answered not authenticated
C12_Witness ==
  /\ IsCheckAuthResp
  /\ resp.token /= NoToken
  /\ verifyToken(resp.token[1], now) = "OK"
  /\ resp.token[1].id \in 1..Len(users)
  /\ resp.dbError = "unavailable"
  /\ resp.kind = "RETURNED" /\ ~resp.ok

\* what the client sees of a response: status, error kind, message, success
\* flag and token
Visible(r) == << r.status, r.kind, handleAuthErrorMessage(r.kind), r.ok, r.token >>

\* C13: a login with an email that has no account and a login with the email of
\* an account and a wrong password are answered alike: both get 401, kind
\* INVALID_CREDENTIALS, the same message and no token.
C13_SameOutcome ==
  ( /\ resp.pc = "done" /\ resp.op = "loginUser"
    /\ LoginInputValid(resp.email, resp.password)
    /\ \/ resp.uid = 0
       \/ /\ resp.uid /= 0
          /\ ~BcryptCompare(normalizePassword(resp.password), users[resp.uid].password) )
  => Visible(resp) = << 401, "INVALID_CREDENTIALS", "Invalid email or password", FALSE, NoToken >>

\* after a login with a wrong password on the account, a login with an email
\* that has no account has just been refused
C13_Witness ==
  /\ resp.pc = "done" /\ resp.op = "loginUser"
  /\ LoginInputValid(resp.email, resp.password)
  /\ resp.uid = 0
  /\ streak >= 1
  /\ resp.status = 401

IsInitResetResp == resp.pc = "done" /\ resp.op = "initPasswordReset"

\* the answer init-password-reset gives for an email that has no account
NoAccountResetAnswer ==
  << 200, "If the email exists, a recovery code has been sent", "error.message", TRUE, NoToken >>

\* C14: init-password-reset answers an email that has an account with the
\* status and body it answers an email without account with, also when the
\* delivery of the code fails.
C14_SameAnswer == IsInitResetResp => Visible(resp) = NoAccountResetAnswer

\* C15: use-backup-code sent with a valid session and an unused backup code of
\* the account is answered 200, and the code is removed from the account's
\* backup codes.
C15_BackupCodeAccepted ==
  [][ ( /\ resp'.pc = "done" /\ resp'.op = "useBackupCode"
        /\ resp'.token /= NoToken
        /\ verifyToken(resp'.token[1], now) = "OK"
        /\ resp'.token[1].id \in 1..Len(users)
        /\ Sha256(resp'.code) \in Range(users[resp'.token[1].id].backupCodes) )
      => ( /\ resp'.status = 200
           /\ Sha256(resp'.code) \notin Range(users'[resp'.token[1].id].backupCodes) ) ]_vars

\* C16: GET /auth/me with a token issued by a successful register or login,
\* unexpired and of an account that exists, is answered 200 with the user.
C16_IssuedTokenPasses ==
  ( /\ resp.pc = "done" /\ resp.op = "getCurrentUser"
    /\ resp.token /= NoToken
    /\ verifyToken(resp.token[1], now) = "OK"
    /\ resp.token[1].id \in 1..Len(users) )
  => (resp.status = 200 /\ resp.ok)

\* a field of the registration is ill-formed or its password is weak
RegisterIllFormed(r) ==
  \/ ~isValidEmail(r.email)
  \/ ~isValidNickname(r.nickname)
  \/ ~PasswordPathValid(r.password)

\* C17: a registration whose email or nickname belongs to a stored account
\* when it arrives is answered 409 and creates no account; 400 is answered
\* only for a weak password or an ill-formed field.
C17_DuplicateIsConflict ==
  [][ (resp'.pc = "done" /\ resp'.op = "register")
      => /\ (resp'.gate \in {"email_taken", "nickname_taken"})
              => (resp'.status = 409 /\ users' = users)
         /\ (resp'.status = 400) => RegisterIllFormed(resp') ]_vars

\* C18: verify-recovery-code with a valid, unexpired code of the account is
\* answered 200 and replaces the credential by newPassword; with an unknown
\* email or a wrong, expired or used code it is answered 400 or 404 and leaves
\* the credential as it was.
C18_ResetOutcome ==
  [][ (resp'.pc = "done" /\ resp'.op = "resetPassword")
      => /\ (resp'.gate = "valid" /\ PasswordPathValid(resp'.password))
              => /\ resp'.status = 200
                 /\ BcryptCompare(resp'.password, users'[resp'.uid].password)
         /\ (resp'.gate /= "valid")
              => (resp'.status \in {400, 404} /\ users' = users) ]_vars

\* the passwords a stored credential may have been set from
SetFrom(hash) ==
  { pw \in CredentialPasswords :
      hash = BcryptHash(pw) \/ hash = BcryptHash(normalizePassword(pw)) }

\* C19: when the credential of an account was set from a password, on any
\* path that writes one, a login with that password or with an NFKC-equivalent
\* one authenticates.
C19_NFKCEquivalentAuthenticates ==
  ( /\ resp.pc = "done" /\ resp.op = "loginUser" /\ resp.uid /= 0
    /\ \E pw \in SetFrom(users[resp.uid].password) :
         normalizePassword(pw) = normalizePassword(resp.password) )
  => resp.ok

\* C20: the attempt that follows four consecutive wrong-password logins on the
\* registered account, itself with a wrong password, is answered
\* AccountLocked.
C20_FifthIsLocked ==
  [][ ( /\ streak = MAX_LOGIN_ATTEMPTS - 1
        /\ resp'.pc = "done" /\ resp'.op \in {"loginUser", "findByCredentials"}
        /\ resp'.uid = 1
        /\ ~BcryptCompare(normalizePassword(resp'.password), users[1].password) )
      => resp'.kind = "ACCOUNT_LOCKED" ]_vars

\* C21: resetLoginAttempts leaves the account with failedLoginAttempts 0,
\* accountLocked false and lockUntil absent whatever its lock state was, and
\* applied once more changes none of the three.
C21_ResetClears ==
  (resp.pc = "done" /\ resp.op = "findByCredentials" /\ resp.kind = "USER")
  => /\ LockFields(users[resp.uid]) = Cleared
     /\ LockFields(UpdateOne(users[resp.uid], resetLoginAttempts)) = LockFields(users[resp.uid])

\* resetLoginAttempts has run on an account that other attempts had locked
\* after this one passed the lock gate
C21_Witness ==
  /\ resp.pc = "done" /\ resp.op = "findByCredentials" /\ resp.kind = "USER"
  /\ resp.gate = "open"
  /\ serial.accountLocked /\ serial.failedLoginAttempts >= MAX_LOGIN_ATTEMPTS
  /\ LockFields(users[resp.uid]) = Cleared

\* C22: every account is Active (fewer than 5 failed attempts, no lock set) or
\* Locked (5 or more failed attempts, accountLocked true, lockUntil set); the
\* counter never reaches 5 on an account without a lock.
C22_ActiveOrLocked ==
  \A i \in 1..Len(users) :
    LET u == users[i]
    IN \/ /\ u.failedLoginAttempts < MAX_LOGIN_ATTEMPTS
          /\ ~u.accountLocked /\ ~HasDate(u.lockUntil)
       \/ /\ u.failedLoginAttempts >= MAX_LOGIN_ATTEMPTS
          /\ u.accountLocked /\ HasDate(u.lockUntil)

\* C23 as stated: whenever accountLocked of an account changes from true to
\* false, by any operation, its failedLoginAttempts is 0 in the resulting
\* state.
C23_UnlockZeroesCounter ==
  [][ \A i \in 1..Len(users) :
        (users[i].accountLocked /\ ~users'[i].accountLocked)
        => users'[i].failedLoginAttempts = 0 ]_vars

\* C23 amended: whenever accountLocked of an account changes from true to
\* false its failedLoginAttempts is 0 in the resulting state, unless the change
\* is made by a failed attempt that found the lock lapsed, which leaves 1.
C23_UnlockZeroesCounterUnlessLapsed ==
  [][ \A i \in 1..Len(users) :
        (users[i].accountLocked /\ ~users'[i].accountLocked)
        => \/ users'[i].failedLoginAttempts = 0
           \/ /\ resp'.op = "findByCredentials" /\ resp'.kind = "NULL"
              /\ resp'.uid = i /\ resp'.gate = "lapsed"
              /\ users'[i].failedLoginAttempts = 1 ]_vars

\* an explicit unlock has just cleared a lock that had not lapsed
C23_Witness ==
  /\ resp.pc = "done" /\ resp.op = "unlock" /\ resp.gate = "locked"
  /\ LockFields(users[resp.uid]) = Cleared

C25_ReturnedMinusConsumed ==
  [][ (resp'.pc = "done" /\ resp'.op = "validateBackupCode")
      => \A g \in Batches :
           Range(users[1].backupCodes) = BatchHashes(g) \ { Sha256(c) : c \in accepts }
           => Range(users'[1].backupCodes) = BatchHashes(g) \ { Sha256(c) : c \in accepts' } ]_vars

\* C26: no two accounts share a nickname, under any interleaving of
\* registrations and profile updates; an update that asks for a nickname held
\* by another account persists nothing and is answered 409; an update to the
\* account's own nickname is accepted.
C26_UniqueHandle ==
  [][ /\ \A i, j \in 1..Len(users') :
           users'[i].nickname = users'[j].nickname => i = j
      /\ (resp'.pc = "done" /\ resp'.op = "updateProfile" /\ resp'.uid /= 0)
           => /\ FindOtherByNickname(users, Trim(resp'.nickname), resp'.uid)
                   => (resp'.status = 409 /\ users' = users)
              /\ Trim(resp'.nickname) = users[resp'.uid].nickname
                   => (resp'.status = 200 /\ users' = users) ]_vars

\* C27: verifyRecoveryCode returns true only for a stored record of the
\* account and the code that has not expired, and every stored record whose
\* expiresAt has passed is eventually removed from the store, whether or not
\* a further recovery request is made for its account.
C27_ExpiredPurged ==
  /\ [][ (resp'.pc = "done" /\ resp'.op = "verifyRecoveryCode" /\ resp'.ok)
         => \E i \in 1..Len(recoveryCodes) :
              /\ recoveryCodes[i].userId = resp'.uid
              /\ recoveryCodes[i].code = Sha256(resp'.code)
              /\ recoveryCodes[i].expiresAt > now ]_vars
  /\ \A rid \in 1..MaxRecords :
       (\E i \in 1..Len(recoveryCodes) :
          recoveryCodes[i].rid = rid /\ recoveryCodes[i].expiresAt <= now)
       ~> ~(\E i \in 1..Len(recoveryCodes) :
              recoveryCodes[i].rid = rid /\ recoveryCodes[i].expiresAt <= now)

\* C28: in every reachable state the lock gate of login, isAccountLocked,
\* answers for every account as the specified definition of locked does
\* (accountLocked true and lockUntil in the future): lockUntil is never in the
\* future on an account whose accountLocked is not true.
C28_GateIsSpecifiedLock ==
  \A i \in 1..Len(users) :
    isAccountLocked(users[i], now)
      <=> ( /\ users[i].accountLocked
            /\ HasDate(users[i].lockUntil) /\ users[i].lockUntil[1] > now )

\* an attempt has just been refused at the gate, on an account whose flag is
\* set and whose lock time is in the future
C28_Witness ==
  /\ resp.pc = "done" /\ resp.op = "findByCredentials" /\ resp.kind = "ACCOUNT_LOCKED"
  /\ users[resp.uid].accountLocked
  /\ HasDate(users[resp.uid].lockUntil) /\ users[resp.uid].lockUntil[1] > now

\* C29: after verify-recovery-code has rotated the credential of an account
\* that is still locked, a login with the new password succeeds without
\* waiting for the time of the lock.
C29_RecoveryRegainsAccess ==
  ( /\ resp.pc = "done" /\ resp.op \in {"loginUser", "findByCredentials"} /\ resp.uid = 1
    /\ resp.gate = "locked" /\ now < LOCK_TIME
    /\ users[1].password = PreSaveHash(PwOther)
    /\ resp.password = PwOther )
  => resp.ok

\* C30: a verify-recovery-code request that ends in an error after its code
\* was matched leaves the RecoveryCode record of the code in the store,
\* unexpired: the code can be used again.
C30_CodeKeptOnError ==
  [][ (resp'.pc = "done" /\ resp'.op = "resetPassword" /\ resp'.gate = "valid" /\ ~resp'.ok)
      => \E i \in 1..Len(recoveryCodes') :
           Matches(recoveryCodes'[i], resp'.uid, Sha256(resp'.code), now) ]_vars

=============================================================================
